---- MODULE Spec2Model ----
(***************************************************************************)
(* Model of yubiauth/util/static.py: FileApp (serves one file), FileIter   *)
(* (byte-range generator over an open file) and DirectoryApp (dispatches   *)
(* PATH_INFO to a FileApp below a root directory).                         *)
(*                                                                         *)
(* Python strings that the code inspects character by character (paths)    *)
(* are sequences of one-character strings.  An optional value is a         *)
(* sequence of length 0 (None / key absent) or 1 (the value).              *)
(***************************************************************************)
EXTENDS Integers, Sequences, FiniteSets, TLC

VARIABLES
    self_path,      \* DirectoryApp.path
    fileapp_kw,     \* DirectoryApp.fileapp_kw
    fs,             \* filesystem: kind of every path that may be a regular file
    caller,         \* which responder served the last request
    req,            \* the last request [method, path_info]
    filename,       \* path handed to FileApp (via make_fileapp or directly), optional
    resp,           \* the last response
    fslog,          \* filesystem operations performed for the last request
    file,           \* FileIter.file: [size, pos, closed]
    seek,           \* app_iter_range argument, optional
    limit0,         \* app_iter_range argument limit as passed, optional
    limit,          \* local variable limit of the generator, optional
    block_size,     \* app_iter_range argument
    gen,            \* generator state
    chunks,         \* chunks yielded so far
    raised,         \* exception that left the generator
    neg_read,       \* what file.read(n) does for n < -1 on this platform
    fault           \* injected I/O error

vars == <<self_path, fileapp_kw, fs, caller, req, filename, resp, fslog,
          file, seek, limit0, limit, block_size, gen, chunks, raised,
          neg_read, fault>>

serveVars == <<self_path, fileapp_kw, fs, caller, req, filename, resp, fslog>>
iterVars == <<file, seek, limit0, limit, block_size, gen, chunks, raised,
              neg_read, fault>>

----------------------------------------------------------------------------
(* Bounds *)

MaxPathLen == 5     \* longest PATH_INFO
MaxFileLen == 5     \* largest file given to FileIter
MaxSeek == 4        \* largest seek argument
MaxLimit == 5       \* largest limit argument
MaxBlock == 3       \* largest block_size argument

None == <<>>
Some(x) == <<x>>
Min(a, b) == IF a < b THEN a ELSE b

----------------------------------------------------------------------------
(* Strings and os.path *)

Sep == "/"
Chars == {"/", ".", "j", "s"}
Dot == <<".">>
DotDot == <<".", ".">>

StartsWith(s, p) == Len(p) <= Len(s) /\ SubSeq(s, 1, Len(p)) = p
EndsWith(s, p) == Len(p) <= Len(s) /\ SubSeq(s, Len(s) - Len(p) + 1, Len(s)) = p

\* str.lstrip('/')
RECURSIVE LStrip(_)
LStrip(s) == IF s # <<>> /\ Head(s) = Sep THEN LStrip(Tail(s)) ELSE s

\* str.split('/')
RECURSIVE Split(_)
Split(s) ==
    IF s = <<>> THEN << <<>> >>
    ELSE LET rest == Split(Tail(s))
         IN IF Head(s) = Sep THEN << <<>> >> \o rest
            ELSE << <<Head(s)>> \o Head(rest) >> \o Tail(rest)

\* '/'.join(comps)
RECURSIVE JoinSep(_)
JoinSep(comps) ==
    IF comps = <<>> THEN <<>>
    ELSE IF Len(comps) = 1 THEN Head(comps)
    ELSE Head(comps) \o <<Sep>> \o JoinSep(Tail(comps))

\* posixpath.join(a, b)
Join(a, b) ==
    IF StartsWith(b, <<Sep>>) THEN b
    ELSE IF a = <<>> \/ EndsWith(a, <<Sep>>) THEN a \o b
    ELSE a \o <<Sep>> \o b

\* the component loop of posixpath.normpath
RECURSIVE NormComps(_, _, _)
NormComps(comps, new, initial) ==
    IF comps = <<>> THEN new
    ELSE LET c == Head(comps)
             rest == Tail(comps)
         IN IF c = <<>> \/ c = Dot THEN NormComps(rest, new, initial)
            ELSE IF \/ c # DotDot
                    \/ (initial = 0 /\ new = <<>>)
                    \/ (new # <<>> /\ new[Len(new)] = DotDot)
                 THEN NormComps(rest, Append(new, c), initial)
            ELSE IF new # <<>>
                 THEN NormComps(rest, SubSeq(new, 1, Len(new) - 1), initial)
            ELSE NormComps(rest, new, initial)

\* posixpath.normpath
NormPath(path) ==
    IF path = <<>> THEN Dot
    ELSE LET initial == IF ~StartsWith(path, <<Sep>>) THEN 0
                        ELSE IF StartsWith(path, <<Sep, Sep>>)
                                /\ ~StartsWith(path, <<Sep, Sep, Sep>>) THEN 2
                        ELSE 1
             body == JoinSep(NormComps(Split(path), <<>>, initial))
             out == [i \in 1..initial |-> Sep] \o body
         IN IF out = <<>> THEN Dot ELSE out

\* os.getcwd() of the serving process
Cwd == <<"/">>

\* posixpath.abspath
AbsPath(path) ==
    IF StartsWith(path, <<Sep>>) THEN NormPath(path)
    ELSE NormPath(Join(Cwd, path))

\* posixpath.splitext(p)[1]
RECURSIVE RFind(_, _, _)
RFind(s, ch, i) == IF i = 0 THEN 0 ELSE IF s[i] = ch THEN i ELSE RFind(s, ch, i - 1)

SplitExt(p) ==
    LET sepIndex == RFind(p, Sep, Len(p))
        dotIndex == RFind(p, ".", Len(p))
    IN IF dotIndex > sepIndex
          /\ \E k \in (sepIndex + 1)..(dotIndex - 1) : p[k] # "."
       THEN SubSeq(p, dotIndex, Len(p))
       ELSE <<>>

\* mimetypes.guess_type(filename) with the types added at import
GuessType(name) ==
    IF SplitExt(name) = <<".", "j", "s">>
    THEN [content_type |-> "text/javascript", content_encoding |-> "None"]
    ELSE [content_type |-> "None", content_encoding |-> "None"]

----------------------------------------------------------------------------
(* The filesystem *)

RootDir == <<"/", "j">>
InsideFile == <<"/", "j", "/", "s", ".", "j", "s">>
NestedFile == <<"/", "j", "/", "j", "/", "s">>
SiblingFile == <<"/", "j", "s">>
MissingFile == <<"/", "j", "/", "s">>

FilePaths == {InsideFile, NestedFile, SiblingFile}
Dirs == {<<"/">>, RootDir, RootDir \o <<"/", "j">>}
Kinds == {"missing", "readable", "unreadable"}

IsDir(fsys, p) == NormPath(p) \in Dirs
IsFile(fsys, p) == p \in FilePaths /\ fsys[p] # "missing"
StatOk(fsys, p) == p \in Dirs \/ IsFile(fsys, p)
OpenOk(fsys, p) == p \in FilePaths /\ fsys[p] = "readable"
StatSize(p) == Len(p)
StatMTime(p) == 100 + Len(p)

----------------------------------------------------------------------------
(* Requests and responses *)

Methods == {"GET", "HEAD", "POST"}

RECURSIVE SeqsUpTo(_)
SeqsUpTo(n) ==
    IF n = 0 THEN {<<>>}
    ELSE LET shorter == SeqsUpTo(n - 1)
         IN shorter \cup {Append(s, c) : s \in {t \in shorter : Len(t) = n - 1}, c \in Chars}

PathInfos == SeqsUpTo(MaxPathLen)

NoReq == [method |-> "", path_info |-> <<>>]

NoResp ==
    [status |-> 0, note |-> "", detail |-> <<>>,
     content_type |-> "None", content_encoding |-> "None",
     accept_ranges |-> "None", content_length |-> -1, last_modified |-> -1,
     app_iter |-> None]

\* webob.exc responses: status, the kind of text attached, and the path it quotes
ExcResp(status, note, detail) ==
    [NoResp EXCEPT !.status = status, !.note = note, !.detail = detail]

\* dict.setdefault on an optional entry
SetDefault(entry, v) == IF entry = None THEN Some(v) ELSE entry

NoKw == [content_type |-> None, content_encoding |-> None, accept_ranges |-> None]
KwChoices == {NoKw, [NoKw EXCEPT !.content_type = Some("text/plain")]}

----------------------------------------------------------------------------
(* FileApp *)

FileApp_init(fname, kw) ==
    LET guess == GuessType(fname)
    IN [filename |-> fname,
        kw |-> [content_type |-> SetDefault(kw.content_type, guess.content_type),
                content_encoding |-> SetDefault(kw.content_encoding, guess.content_encoding),
                accept_ranges |-> SetDefault(kw.accept_ranges, "bytes")]]

\* ok(app): the streamed response of FileApp.__call__
FileResponse(app) ==
    [status |-> 200, note |-> "", detail |-> <<>>,
     content_type |-> app.kw.content_type[1],
     content_encoding |-> app.kw.content_encoding[1],
     accept_ranges |-> app.kw.accept_ranges[1],
     content_length |-> StatSize(app.filename),
     last_modified |-> StatMTime(app.filename),
     app_iter |-> Some(app.filename)]

\* variant: the file is stat'ed before the method is looked at
FileApp_call_StatFirst(app, r, fsys) ==
    IF ~StatOk(fsys, app.filename)
    THEN [resp |-> ExcResp(404, "comment", app.filename), log |-> <<"stat">>]
    ELSE IF r.method \notin {"GET", "HEAD"}
    THEN [resp |-> ExcResp(405, "cannot-method", <<>>), log |-> <<"stat">>]
    ELSE IF ~OpenOk(fsys, app.filename)
    THEN [resp |-> ExcResp(403, "not-permitted", <<>>), log |-> <<"stat", "open">>]
    ELSE [resp |-> FileResponse(app), log |-> <<"stat", "open">>]

\* variant: the file is opened before it is stat'ed
FileApp_call_OpenFirst(app, r, fsys) ==
    IF r.method \notin {"GET", "HEAD"}
    THEN [resp |-> ExcResp(405, "cannot-method", <<>>), log |-> <<>>]
    ELSE IF ~OpenOk(fsys, app.filename)
    THEN [resp |-> ExcResp(403, "not-permitted", <<>>), log |-> <<"open">>]
    ELSE IF ~StatOk(fsys, app.filename)
    THEN [resp |-> ExcResp(404, "comment", app.filename), log |-> <<"open", "stat">>]
    ELSE [resp |-> FileResponse(app), log |-> <<"open", "stat">>]

\* FileApp.__call__: the response and the filesystem calls made, in order
FileApp_call(app, r, fsys) ==
    IF r.method \notin {"GET", "HEAD"}
    THEN [resp |-> ExcResp(405, "cannot-method", <<>>), log |-> <<>>]
    ELSE IF ~StatOk(fsys, app.filename)
    THEN [resp |-> ExcResp(404, "comment", app.filename), log |-> <<"stat">>]
    ELSE IF ~OpenOk(fsys, app.filename)
    THEN [resp |-> ExcResp(403, "not-permitted", <<>>), log |-> <<"stat", "open">>]
    ELSE [resp |-> FileResponse(app), log |-> <<"stat", "open">>]

----------------------------------------------------------------------------
(* DirectoryApp *)

\* DirectoryApp.__init__: the value of self.path
DirectoryApp_path(path) ==
    LET p == AbsPath(path)
    IN IF ~EndsWith(p, <<Sep>>) THEN p \o <<Sep>> ELSE p

\* variant: the responder's options are not passed on
make_fileapp_NoKw(path, kw) == FileApp_init(path, NoKw)

make_fileapp(path, kw) == FileApp_init(path, kw)

\* the candidate path of DirectoryApp.__call__
Candidate(root, r) == AbsPath(Join(root, LStrip(r.path_info)))

\* variant: the root is compared without its trailing separator
Contained_NoSep(path, root) == StartsWith(path, SubSeq(root, 1, Len(root) - 1))

\* the containment test of DirectoryApp.__call__
Contained(path, root) == StartsWith(path, root)

\* DirectoryApp.__call__
DirectoryApp_call(root, kw, r, fsys) ==
    LET path == Candidate(root, r)
    IN IF ~IsFile(fsys, path)
       THEN [resp |-> ExcResp(404, "comment", path), log |-> <<"isfile">>,
             filename |-> None]
       ELSE IF ~Contained(path, root)
       THEN [resp |-> ExcResp(403, "", <<>>), log |-> <<"isfile">>,
             filename |-> None]
       ELSE LET out == FileApp_call(make_fileapp(path, kw), r, fsys)
            IN [resp |-> out.resp, log |-> <<"isfile">> \o out.log,
                filename |-> Some(path)]

RootArgs == {RootDir, RootDir \o <<Sep>>, RootDir \o <<Sep, ".">>, SiblingFile}
FileTargets == FilePaths \cup {MissingFile, RootDir}

----------------------------------------------------------------------------
(* FileIter *)

GenStates == {"created", "suspended", "returned", "raised", "abandoned"}

\* the iterator as one value: the open file, the arguments and locals of
\* app_iter_range, the generator's state and what it has yielded
It ==
    [file |-> file, seek |-> seek, limit0 |-> limit0, limit |-> limit,
     block_size |-> block_size, gen |-> gen, chunks |-> chunks,
     raised |-> raised, neg_read |-> neg_read, fault |-> fault]

\* variant: "if seek is not None:"
Truthy_NotNone(sk) == sk # None

\* truth value of the seek argument ("if seek:")
Truthy(sk) == sk # None /\ sk[1] # 0

\* file position after the seek block
StartPos(sk, pos) == IF Truthy(sk) THEN sk[1] ELSE pos

\* variant: limit is left as passed
StartLimit_Unadjusted(sk, lim) == lim

\* limit after the seek block
StartLimit(sk, lim) ==
    IF Truthy(sk) /\ lim # None THEN Some(lim[1] - sk[1]) ELSE lim

\* file.seek(n) raises: a negative offset, or an I/O error
SeekRaises(sk, flt) == sk[1] < 0 \/ flt = "seek"

\* the argument of file.read
ReadSize(bs, lim) == IF lim # None THEN Min(bs, lim[1]) ELSE bs

\* file.read(n) raises: an I/O error, or a length below -1 where the file
\* object rejects it
ReadRaises(n, mode, flt) == flt = "read" \/ (n < -1 /\ mode = "error")

\* file.read(n): the bytes returned, each byte named by its offset in the file;
\* a negative n reads to the end of the file
ReadData(f, n) ==
    LET stop == IF n < 0 THEN f.size ELSE Min(f.pos + n, f.size)
        count == IF stop > f.pos THEN stop - f.pos ELSE 0
    IN [i \in 1..count |-> f.pos + i - 1]

\* the finally clause
Close(f) == [f EXCEPT !.closed = TRUE]

\* one pass of the while loop from file.read to the yield, the return or
\* the exception
ReadLoop(s, f, lim) ==
    LET n == ReadSize(s.block_size, lim)
        data == ReadData(f, n)
    IN IF ReadRaises(n, s.neg_read, s.fault)
       THEN [s EXCEPT !.file = Close(f), !.limit = lim, !.gen = "raised",
                      !.raised = "read"]
       ELSE IF data = <<>>
       THEN [s EXCEPT !.file = Close(f), !.limit = lim, !.gen = "returned"]
       ELSE [s EXCEPT !.file = [f EXCEPT !.pos = f.pos + Len(data)],
                      !.limit = lim, !.gen = "suspended",
                      !.chunks = Append(s.chunks, data)]

\* the code after the yield, up to the next read
AfterYield(s) ==
    LET data == s.chunks[Len(s.chunks)]
        lim == IF s.limit # None THEN Some(s.limit[1] - Len(data)) ELSE None
    IN IF lim # None /\ lim[1] <= 0
       THEN [s EXCEPT !.file = Close(s.file), !.limit = lim, !.gen = "returned"]
       ELSE ReadLoop(s, s.file, lim)

\* next() on the generator: run app_iter_range to its next yield or its end
PullStep(s) ==
    IF s.gen = "created"
    THEN IF Truthy(s.seek) /\ SeekRaises(s.seek, s.fault)
         THEN [s EXCEPT !.gen = "raised", !.raised = "seek"]
         ELSE ReadLoop(s, [s.file EXCEPT !.pos = StartPos(s.seek, s.file.pos)],
                       StartLimit(s.seek, s.limit))
    ELSE AfterYield(s)

\* close() on the generator: GeneratorExit is raised at the yield where the
\* generator is suspended; a generator that never started runs no code
CloseStep(s) ==
    IF s.gen = "suspended"
    THEN [s EXCEPT !.file = Close(s.file), !.gen = "abandoned"]
    ELSE [s EXCEPT !.gen = "abandoned"]

\* the consumer pulls until the generator ends
RECURSIVE Drain(_)
Drain(s) == IF s.gen \in {"created", "suspended"} THEN Drain(PullStep(s)) ELSE s

IterIdle ==
    /\ file = [size |-> 0, pos |-> 0, closed |-> TRUE]
    /\ seek = None /\ limit0 = None /\ limit = None /\ block_size = 1
    /\ gen = "returned" /\ chunks = <<>> /\ raised = "" /\ neg_read = "all"
    /\ fault = "none"

ServeIdle ==
    /\ self_path = DirectoryApp_path(RootDir)
    /\ fileapp_kw = NoKw
    /\ fs = [p \in FilePaths |-> "readable"]
    /\ caller = "none" /\ req = NoReq /\ filename = None
    /\ resp = NoResp /\ fslog = <<>>

Optional(S) == {None} \cup {Some(x) : x \in S}

\* FileIter(file).app_iter_range(seek, limit, block_size) on a file just opened
InitIter ==
    /\ ServeIdle
    /\ \E size \in 0..MaxFileLen : file = [size |-> size, pos |-> 0, closed |-> FALSE]
    /\ seek \in Optional(-1..MaxSeek)
    /\ limit0 \in Optional(0..MaxLimit)
    /\ limit = limit0
    /\ block_size \in 1..MaxBlock
    /\ gen = "created" /\ chunks = <<>> /\ raised = ""
    /\ neg_read \in {"all", "error"}
    /\ fault \in {"none", "seek", "read"}

SetIter(s) ==
    /\ file' = s.file /\ limit' = s.limit /\ gen' = s.gen
    /\ chunks' = s.chunks /\ raised' = s.raised
    /\ UNCHANGED <<seek, limit0, block_size, neg_read, fault>>
    /\ UNCHANGED serveVars

Pull ==
    /\ gen \in {"created", "suspended"}
    /\ SetIter(PullStep(It))

Abandon ==
    /\ gen \in {"created", "suspended"}
    /\ SetIter(CloseStep(It))

NextIter == Pull \/ Abandon

SpecIter == InitIter /\ [][NextIter]_vars

----------------------------------------------------------------------------
(* Serving requests *)

\* DirectoryApp(arg, **kw) has been constructed; its assertion held
InitServe ==
    /\ fs \in [FilePaths -> Kinds]
    /\ \E arg \in RootArgs :
          /\ IsDir(fs, DirectoryApp_path(arg))
          /\ self_path = DirectoryApp_path(arg)
    /\ fileapp_kw \in KwChoices
    /\ caller = "none" /\ req = NoReq /\ filename = None
    /\ resp = NoResp /\ fslog = <<>>
    /\ IterIdle

\* one request is handled at a time (synchronous, single-threaded handling)
DirectoryAppCall ==
    /\ caller = "none"
    /\ \E m \in Methods, p \in PathInfos :
        LET r == [method |-> m, path_info |-> p]
            out == DirectoryApp_call(self_path, fileapp_kw, r, fs)
        IN /\ caller' = "DirectoryApp"
           /\ req' = r
           /\ filename' = out.filename
           /\ resp' = out.resp
           /\ fslog' = out.log
           /\ UNCHANGED <<self_path, fileapp_kw, fs>>
           /\ UNCHANGED iterVars

FileAppCall ==
    /\ caller = "none"
    /\ \E m \in Methods, f \in FileTargets, kw \in KwChoices :
        LET r == [method |-> m, path_info |-> <<>>]
            out == FileApp_call(FileApp_init(f, kw), r, fs)
        IN /\ caller' = "FileApp"
           /\ req' = r
           /\ filename' = Some(f)
           /\ resp' = out.resp
           /\ fslog' = out.log
           /\ UNCHANGED <<self_path, fileapp_kw, fs>>
           /\ UNCHANGED iterVars

\* the response has been handed to the server; the responder takes the next request
Respond ==
    /\ caller # "none"
    /\ caller' = "none" /\ req' = NoReq /\ filename' = None
    /\ resp' = NoResp /\ fslog' = <<>>
    /\ UNCHANGED <<self_path, fileapp_kw, fs>>
    /\ UNCHANGED iterVars

NextServe == DirectoryAppCall \/ FileAppCall \/ Respond

SpecServe == InitServe /\ [][NextServe]_vars

----------------------------------------------------------------------------
(* Properties of the responders (checked under SpecServe) *)

\* candidate path of the request in hand
Cand == Candidate(self_path, req)

\* path components of the root, without the empty one after its last separator
RootComps(root) == LET c == Split(root) IN SubSeq(c, 1, Len(c) - 1)

\* the path is neither the root nor anything below it
Outside(path, root) == ~StartsWith(Split(path), RootComps(root))

\* the path is strictly below the root
Below(path, root) ==
    /\ StartsWith(Split(path), RootComps(root))
    /\ Len(Split(path)) > Len(RootComps(root))

\* C1: a request to the directory responder whose candidate path lies outside
\* the root gets 403, and gets the same response whether or not a file exists
\* at that outside path.
C1_OutsideIsForbidden ==
    (caller = "DirectoryApp" /\ Outside(Cand, self_path)) =>
        /\ resp.status = 403
        /\ \A k \in Kinds :
              Cand \in FilePaths =>
                  DirectoryApp_call(self_path, fileapp_kw, req,
                                    [fs EXCEPT ![Cand] = k]).resp = resp

\* C2: the directory responder hands a path to a file responder only when it
\* is the candidate path and has the root path, which ends with a separator,
\* as a proper string prefix; the root itself, with or without its trailing
\* separator, is never handed over.
C2_HandsOnlyBelowRoot ==
    /\ EndsWith(self_path, <<Sep>>)
    /\ (caller = "DirectoryApp" /\ filename # None) =>
          /\ filename[1] = Cand
          /\ StartsWith(filename[1], self_path)
          /\ Len(filename[1]) > Len(self_path)
          /\ filename[1] # SubSeq(self_path, 1, Len(self_path) - 1)
          /\ Below(filename[1], self_path)

C2_Witness ==
    /\ caller = "DirectoryApp"
    /\ filename = Some(NestedFile)
    /\ StartsWith(req.path_info, <<Sep, Sep>>)

\* C3: for a method other than GET and HEAD the file responder answers 405
\* and has made no filesystem call, also for a path that does not exist or
\* cannot be read.
C3_MethodNotAllowedFirst ==
    (caller = "FileApp" /\ req.method \notin {"GET", "HEAD"}) =>
        /\ resp.status = 405
        /\ fslog = <<>>
        /\ resp.app_iter = None

C3_Witness ==
    /\ caller = "FileApp"
    /\ req.method = "POST"
    /\ filename = Some(MissingFile)
    /\ resp.status = 405

\* C4: for GET and HEAD the file responder ends in exactly one of: 404 when
\* stat fails (open is not attempted, no handle is opened), 403 when stat
\* succeeds and open fails, or a streamed response with content_length the
\* stat size and last_modified the stat modification time.
C4_StatThenOpen ==
    (caller = "FileApp" /\ req.method \in {"GET", "HEAD"}) =>
        LET f == filename[1]
        IN \/ /\ ~StatOk(fs, f)
              /\ resp.status = 404 /\ resp.detail = f
              /\ fslog = <<"stat">> /\ resp.app_iter = None
           \/ /\ StatOk(fs, f) /\ ~OpenOk(fs, f)
              /\ resp.status = 403
              /\ fslog = <<"stat", "open">> /\ resp.app_iter = None
           \/ /\ StatOk(fs, f) /\ OpenOk(fs, f)
              /\ resp.status = 200
              /\ fslog = <<"stat", "open">> /\ resp.app_iter = Some(f)
              /\ resp.content_length = StatSize(f)
              /\ resp.last_modified = StatMTime(f)

C4_Witness ==
    /\ caller = "FileApp"
    /\ req.method = "GET"
    /\ filename = Some(InsideFile)
    /\ fs[InsideFile] = "unreadable"
    /\ resp.status = 403

\* C8: when the candidate path is an existing regular file below the root,
\* the directory responder's response is the response of a file responder
\* built for that path with the directory responder's options and called
\* with the same request, for every method.
C8_DelegatesUnchanged ==
    (caller = "DirectoryApp" /\ IsFile(fs, Cand) /\ Below(Cand, self_path)) =>
        /\ filename = Some(Cand)
        /\ resp = FileApp_call(FileApp_init(Cand, fileapp_kw), req, fs).resp

C8_Witness ==
    /\ caller = "DirectoryApp"
    /\ filename = Some(NestedFile)
    /\ fileapp_kw.content_type = Some("text/plain")
    /\ resp.status = 200

----------------------------------------------------------------------------
(* Properties of the range iteration (checked under SpecIter) *)

RECURSIVE Flatten(_)
Flatten(seqs) == IF seqs = <<>> THEN <<>> ELSE Head(seqs) \o Flatten(Tail(seqs))

\* the bytes at offsets a .. b-1
Bytes(a, b) == [i \in 1..(b - a) |-> a + i - 1]

Ended == gen \in {"returned", "raised"}

\* C5 as stated: with seek > 0, block_size dividing limit and seek + limit
\* within the file, the iteration yields limit / block_size chunks of
\* block_size bytes that make up bytes [seek, seek + limit), and the handle
\* ends closed.
C5_LimitIsLength ==
    (/\ Ended /\ fault = "none"
     /\ seek # None /\ limit0 # None
     /\ seek[1] > 0
     /\ limit0[1] % block_size = 0
     /\ seek[1] + limit0[1] <= file.size) =>
        /\ gen = "returned"
        /\ Len(chunks) = limit0[1] \div block_size
        /\ \A i \in 1..Len(chunks) : Len(chunks[i]) = block_size
        /\ Flatten(chunks) = Bytes(seek[1], seek[1] + limit0[1])
        /\ file.closed

\* C5 amended: with seek > 0, seek <= limit, block_size dividing limit - seek
\* and limit within the file, the iteration yields (limit - seek) / block_size
\* chunks of block_size bytes that make up bytes [seek, limit), and the handle
\* ends closed.
C5_LimitIsEndOffset ==
    (/\ Ended /\ fault = "none"
     /\ seek # None /\ limit0 # None
     /\ seek[1] > 0
     /\ seek[1] <= limit0[1]
     /\ (limit0[1] - seek[1]) % block_size = 0
     /\ limit0[1] <= file.size) =>
        /\ gen = "returned"
        /\ Len(chunks) = (limit0[1] - seek[1]) \div block_size
        /\ \A i \in 1..Len(chunks) : Len(chunks[i]) = block_size
        /\ Flatten(chunks) = Bytes(seek[1], limit0[1])
        /\ file.closed

C5_Witness ==
    /\ gen = "returned" /\ fault = "none"
    /\ seek = Some(2) /\ limit0 = Some(4) /\ block_size = 1
    /\ chunks = << <<2>>, <<3>> >>
    /\ file.closed

\* C6: however the iteration ends (end of file, limit reached, abandoned by
\* the consumer, error in seek or read), the file handle is closed.
C6_ClosedOnEveryExit ==
    gen \in {"returned", "raised", "abandoned"} => file.closed

\* C7: with limit = 0, or with seek at or beyond the end of the file, the
\* iteration yields nothing, raises nothing and leaves the handle closed.
C7_EmptyRange ==
    (/\ Ended /\ fault = "none"
     /\ seek = None \/ seek[1] >= 0
     /\ \/ limit0 = Some(0)
        \/ (seek # None /\ seek[1] >= file.size)) =>
        /\ chunks = <<>>
        /\ gen = "returned"
        /\ file.closed

\* the result of an iteration that a consumer can observe
Observed(s) ==
    [chunks |-> s.chunks, gen |-> s.gen, raised |-> s.raised,
     closed |-> s.file.closed, pos |-> s.file.pos]

\* C9: on a freshly opened handle an iteration with seek = 0 and one with
\* seek omitted, all else equal, yield the same chunks pull by pull and to
\* the end, and leave the handle in the same state, also when abandoned.
C9_SeekZeroIsSeekOmitted ==
    (seek \in {None, Some(0)}) =>
        LET other == [It EXCEPT !.seek = IF seek = None THEN Some(0) ELSE None]
        IN /\ Observed(Drain(It)) = Observed(Drain(other))
           /\ gen \in {"created", "suspended"} =>
                 /\ Observed(PullStep(It)) = Observed(PullStep(other))
                 /\ Observed(CloseStep(It)) = Observed(CloseStep(other))

C9_Witness ==
    /\ seek = Some(0) /\ limit0 = Some(3) /\ block_size = 2
    /\ gen = "returned"
    /\ chunks = << <<0, 1>>, <<2>> >>
    /\ file.closed

\* C10: with seek >= 0, limit >= 0 and block_size > 0 every chunk yielded is
\* non-empty and at most block_size bytes long and the bytes yielded never
\* total more than limit, also when seek is greater than limit.
C10_WithinLimit ==
    (/\ limit0 # None /\ limit0[1] >= 0 /\ block_size > 0
     /\ seek = None \/ seek[1] >= 0) =>
        /\ \A i \in 1..Len(chunks) :
              Len(chunks[i]) > 0 /\ Len(chunks[i]) <= block_size
        /\ Len(Flatten(chunks)) <= limit0[1]

====
